---- MODULE Spec2Model ----
(***************************************************************************)
(* Model of src/gaia-trainer.js: class GaiaAiTrainingBot, its training     *)
(* loop, its WebSocket event handlers and its shutdown path.               *)
(*                                                                         *)
(* One step of the model is one turn of the Node.js event loop: a timer,   *)
(* socket or signal callback together with every promise continuation it   *)
(* releases, up to the next await that waits for a timer, a socket event   *)
(* or the file system.  The socket (package ws) and the endpoint are the   *)
(* environment: they open, deliver messages, fail and close on their own.  *)
(***************************************************************************)
EXTENDS Integers, Sequences, FiniteSets, TLC

\* ------------------------------------------------------------------ bounds
MaxMessages  == 2   \* config.maxMessages ranges over 1..MaxMessages
MaxEnvEvents == 2   \* things the surroundings do to one bot: unsolicited inbound
                    \* messages, transport faults, stopTraining or startTraining
                    \* calls from outside the loop, moves of the system clock

VARIABLES
    maxMessages,          \* this.config.maxMessages
    errorListener,        \* TRUE iff the owner attached an 'error' listener to the bot
    endpoint,             \* "any": endpoint sends what it likes; "echo": echoes each prompt
                          \* once; "silent": sends nothing
    pc,                   \* where startTraining/trainingLoop is suspended
    currentMessageCount,  \* local of trainingLoop
    isRunning,            \* this.isRunning
    isPaused,             \* this.isPaused
    stats,                \* this.stats
    trainingData,         \* this.trainingData
    currentPromptIndex,   \* this.currentPromptIndex
    ws,                   \* this.ws: index of the newest socket, 0 = null
    socks,                \* readyState of every socket created so far
    inflight,             \* per socket: messages sent by the endpoint, not yet delivered
    envEvents,            \* what the surroundings have done so far (see MaxEnvEvents)
    saves,                \* saveLogs writes in progress for outside stopTraining calls
    loopSnap,             \* what the loop's own saveLogs is writing
    extStops,             \* number of stopTraining calls from outside the loop so far
    logFile,              \* content of config.logFile on disk
    summaries,            \* number of printSummary outputs
    halted,               \* "no" | "exit" (process.exit) | "crash" (uncaught exception)
    now,                  \* the system clock that new Date() reads
    hist                  \* history of faults, for stating the claims only

vars == <<maxMessages, errorListener, endpoint, pc, currentMessageCount, isRunning,
          isPaused, stats, trainingData, currentPromptIndex, ws, socks, inflight,
          envEvents, saves, loopSnap, extStops, logFile, summaries, halted, now, hist>>

\* --------------------------------------------------------------- constants
\* getTrainingPrompts for trainingMode 'custom' with no customPrompts
getTrainingPrompts ==
    <<"Tell me about your capabilities",
      "What can you help me with?",
      "How do you process information?">>

\* the prompt list read without wrapping: past its end it stays on the last prompt
promptAt_noWrap(i) ==
    getTrainingPrompts[IF i < Len(getTrainingPrompts) THEN i + 1 ELSE Len(getTrainingPrompts)]

\* prompts[this.currentPromptIndex % prompts.length]
promptAt(i) == getTrainingPrompts[(i % Len(getTrainingPrompts)) + 1]

\* new WebSocket(...): sockets are numbered in order of creation.  startTraining
\* creates one; every further one follows a failed send (which follows a fault)
\* or a further startTraining
SockIds == 1..(MaxEnvEvents + 1)

NoSnap == [written |-> FALSE]

\* ------------------------------------------------------------ inbound data
\* Wire payloads an arbitrary endpoint may send
Payloads == {"hello", "{\"message\":\"hi\"}", "{\"message\":42}", "null", "7"}

\* JSON.parse(data.toString()): ok = FALSE when it throws
JSONparse(raw) ==
    CASE raw = "{\"message\":\"hi\"}" -> [ok |-> TRUE, kind |-> "object", field |-> "string", text |-> "hi"]
      [] raw = "{\"message\":42}"     -> [ok |-> TRUE, kind |-> "object", field |-> "number", text |-> ""]
      [] raw = "null"                 -> [ok |-> TRUE, kind |-> "null",   field |-> "none",   text |-> ""]
      [] raw = "7"                    -> [ok |-> TRUE, kind |-> "scalar", field |-> "none",   text |-> ""]
      [] OTHER                        -> [ok |-> FALSE, kind |-> "none",  field |-> "none",   text |-> ""]

\* the object the catch branch of the message handler builds: { message: raw }
plainText(raw) == [ok |-> TRUE, kind |-> "object", field |-> "string", text |-> raw]

\* handleResponse with the entry put at the front of the ledger (unshift for push)
handleResponse_prepends(response, st, data) ==
    [threw |-> FALSE, stats |-> [st EXCEPT !.responses = @ + 1],
     data |-> <<[timestamp |-> now, type |-> "response", content |-> "Response received",
                 session |-> st.sessionCount]>> \o data]

\* handleResponse(response) on stats st and ledger data.
\* stats.responses++ comes first; reading a field of null and calling
\* substring on a non-string both throw after it and before the push.
handleResponse(response, st, data) ==
    LET st1 == [st EXCEPT !.responses = @ + 1]
        message == IF response.field = "string" /\ response.text # ""
                   THEN response.text ELSE "Response received"
    IN  IF response.kind = "null" \/ response.field = "number"
        THEN [threw |-> TRUE, stats |-> st1, data |-> data]
        ELSE [threw |-> FALSE, stats |-> st1,
              data |-> Append(data, [timestamp |-> now, type |-> "response",
                                     content |-> message,
                                     session |-> st.sessionCount])]

\* the 'message' handler of connectToNode
onMessage(raw, st, data) ==
    LET parsed == JSONparse(raw)
        first  == IF parsed.ok THEN handleResponse(parsed, st, data)
                  ELSE [threw |-> TRUE, stats |-> st, data |-> data]
    IN  IF first.threw
        THEN handleResponse(plainText(raw), first.stats, first.data)
        ELSE first

\* ------------------------------------------------------------------ sockets
\* ws.close(): starts the closing handshake of an open socket, aborts a
\* connecting one (which then emits 'error'), and is a no-op otherwise
closeSocket(state) ==
    CASE state = "OPEN"       -> "CLOSING"
      [] state = "CONNECTING" -> "ABORTING"
      [] OTHER                -> state

\* if (this.ws) this.ws.close()
closeWs(sk) == IF ws = 0 THEN sk ELSE [sk EXCEPT ![ws] = closeSocket(@)]

\* what saveLogs serialises, taken when JSON.stringify runs
snapshot(st, data) == [written |-> TRUE, stats |-> st, trainingData |-> data]

\* ------------------------------------------------------------ sendMessage
\* sendMessage with the count taken before the connection check
sendMessage_countsFirst(message, st, data, sk) ==
    IF ws = 0 \/ sk[ws] # "OPEN"
    THEN [threw |-> TRUE, stats |-> [st EXCEPT !.messageCount = @ + 1], data |-> data]
    ELSE [threw |-> FALSE,
          stats |-> [st EXCEPT !.messageCount = @ + 1],
          data  |-> Append(data, [timestamp |-> now, type |-> "prompt",
                                  content |-> message,
                                  session |-> st.sessionCount])]

\* sendMessage without the push of the prompt onto trainingData
sendMessage_noRecord(message, st, data, sk) ==
    IF ws = 0 \/ sk[ws] # "OPEN"
    THEN [threw |-> TRUE, stats |-> st, data |-> data]
    ELSE [threw |-> FALSE, stats |-> [st EXCEPT !.messageCount = @ + 1], data |-> data]

\* sendMessage(message): throws when the socket is not open, otherwise sends,
\* counts and records the prompt
sendMessage(message, st, data, sk) ==
    IF ws = 0 \/ sk[ws] # "OPEN"
    THEN [threw |-> TRUE, stats |-> st, data |-> data]
    ELSE [threw |-> FALSE,
          stats |-> [st EXCEPT !.messageCount = @ + 1],
          data  |-> Append(data, [timestamp |-> now, type |-> "prompt",
                                  content |-> message,
                                  session |-> st.sessionCount])]

\* ----------------------------------------------------------- trainingLoop
\* the loop test with <= in place of <
loopCondition_offByOne(run, cnt) == run /\ cnt <= maxMessages

\* while (this.isRunning && currentMessageCount < this.config.maxMessages)
loopCondition(run, cnt) == run /\ cnt < maxMessages

\* the loop with the pause test left out
shouldPoll_never == FALSE

\* the pause test skipped on the pass that follows a reconnect
shouldPoll_notAfterReconnect == isPaused /\ pc # "reconnecting"

\* if (this.isPaused) { await this.sleep(1000); continue; }
shouldPoll == isPaused

\* the statements after the while loop: stopTraining() up to the file write
loopExit(st, cnt, sk) ==
    /\ pc' = "saving"
    /\ isRunning' = FALSE
    /\ isPaused' = FALSE
    /\ socks' = closeWs(sk)
    /\ loopSnap' = snapshot(st, trainingData)
    /\ stats' = st
    /\ currentMessageCount' = cnt
    /\ UNCHANGED <<trainingData, currentPromptIndex, ws>>

\* one pass of the loop from the top of the while to the next await
trainingLoop(run, st, cnt, sk) ==
    IF loopCondition(run, cnt)
    THEN IF shouldPoll
         THEN /\ pc' = "poll"
              /\ isRunning' = run
              /\ stats' = st
              /\ currentMessageCount' = cnt
              /\ socks' = sk
              /\ hist' = [hist EXCEPT !.polled = TRUE]
              /\ UNCHANGED <<isPaused, trainingData, currentPromptIndex, ws,
                             inflight, loopSnap>>
         ELSE LET prompt == promptAt(currentPromptIndex)
                  r == sendMessage(prompt, st, trainingData, sk)
              IN  /\ currentPromptIndex' = currentPromptIndex + 1
                  /\ isRunning' = run
                  /\ UNCHANGED <<isPaused, loopSnap>>
                  /\ IF ~r.threw
                     THEN /\ pc' = "sleep"
                          /\ stats' = r.stats
                          /\ trainingData' = r.data
                          /\ currentMessageCount' = cnt + 1
                          /\ socks' = sk
                          /\ inflight' = IF endpoint = "echo"
                                         THEN [inflight EXCEPT ![ws] = Append(@, prompt)]
                                         ELSE inflight
                          /\ UNCHANGED <<ws, hist>>
                     ELSE \* catch: count the error, then connectToNode()
                          /\ pc' = "reconnecting"
                          /\ stats' = [r.stats EXCEPT !.errors = @ + 1]
                          /\ trainingData' = r.data
                          /\ currentMessageCount' = cnt
                          /\ ws' = ws + 1
                          /\ socks' = [sk EXCEPT ![ws + 1] = "CONNECTING"]
                          /\ hist' = [hist EXCEPT !.failedAt = @ \cup {currentPromptIndex}]
                          /\ UNCHANGED inflight
    ELSE /\ loopExit(st, cnt, sk)
         /\ UNCHANGED <<hist, inflight>>

\* ---------------------------------------------------------------- actions
\* startTraining() up to `await this.connectToNode()`
startTraining ==
    /\ halted = "no"
    /\ pc = "idle"
    /\ pc' = "connecting"
    /\ ws' = ws + 1
    /\ socks' = [socks EXCEPT ![ws + 1] = "CONNECTING"]
    /\ UNCHANGED <<maxMessages, errorListener, endpoint, now, currentMessageCount, isRunning,
                   isPaused, stats, trainingData, currentPromptIndex, inflight, envEvents,
                   saves, loopSnap, extStops, logFile, summaries, halted, hist>>

\* 'open' event of socket s; the connect promise resolves and the awaiting
\* startTraining or trainingLoop runs on to its next await
wsOpen(s) ==
    /\ halted = "no"
    /\ socks[s] = "CONNECTING"
    /\ LET sk == [socks EXCEPT ![s] = "OPEN"]
       IN  IF s = ws /\ pc = "connecting"
           THEN trainingLoop(TRUE,
                             [stats EXCEPT !.startTime = TRUE, !.sessionCount = @ + 1],
                             0, sk)
           ELSE IF s = ws /\ pc = "reconnecting"
           THEN trainingLoop(isRunning, stats, currentMessageCount, sk)
           ELSE /\ socks' = sk
                /\ UNCHANGED <<pc, currentMessageCount, isRunning, isPaused, stats,
                               trainingData, currentPromptIndex, ws, inflight,
                               loopSnap, hist>>
    /\ UNCHANGED <<maxMessages, errorListener, endpoint, now, envEvents, saves, extStops,
                   logFile, summaries, halted>>

\* the timer of this.sleep(...) fires: the loop goes round
sleepDone ==
    /\ halted = "no"
    /\ pc \in {"sleep", "poll"}
    /\ trainingLoop(isRunning, stats, currentMessageCount, socks)
    /\ UNCHANGED <<maxMessages, errorListener, endpoint, now, envEvents, saves, extStops,
                   logFile, summaries, halted>>

\* 'message' event of socket s when the endpoint sends whatever it likes
wsMessage(s, raw) ==
    /\ halted = "no"
    /\ endpoint = "any"
    /\ socks[s] \in {"OPEN", "CLOSING"}
    /\ envEvents < MaxEnvEvents
    /\ envEvents' = envEvents + 1
    /\ LET r == onMessage(raw, stats, trainingData)
       IN  /\ stats' = r.stats
           /\ trainingData' = r.data
    /\ UNCHANGED <<maxMessages, errorListener, endpoint, now, pc, currentMessageCount,
                   isRunning, isPaused, currentPromptIndex, ws, socks, inflight, saves,
                   loopSnap, extStops, logFile, summaries, halted, hist>>

\* 'message' event of socket s when the endpoint echoes every prompt once, in order
wsMessageEcho(s) ==
    /\ halted = "no"
    /\ endpoint = "echo"
    /\ socks[s] \in {"OPEN", "CLOSING"}
    /\ inflight[s] # <<>>
    /\ inflight' = [inflight EXCEPT ![s] = Tail(@)]
    /\ LET r == onMessage(Head(inflight[s]), stats, trainingData)
       IN  /\ stats' = r.stats
           /\ trainingData' = r.data
    /\ UNCHANGED <<maxMessages, errorListener, endpoint, now, pc, currentMessageCount,
                   isRunning, isPaused, currentPromptIndex, ws, socks, envEvents, saves,
                   loopSnap, extStops, logFile, summaries, halted, hist>>

\* an 'error' of a socket that stopTraining aborted, and the 'close' that
\* ends a closing handshake, follow from what the bot did; any other 'error'
\* or 'close' is a fault of the transport or the endpoint
errorIsFault(s) == IF socks[s] = "ABORTING" THEN 0 ELSE 1

closeIsFault(s) == IF socks[s] = "OPEN" THEN 1 ELSE 0

\* 'error' event of socket s (refused or failed connect, transport error, or
\* the abort of a connecting socket that was closed): the handler counts it,
\* re-emits it on the bot, which throws when nobody listens, and rejects the
\* connect promise
wsError(s) ==
    /\ halted = "no"
    /\ socks[s] \in {"CONNECTING", "OPEN", "CLOSING", "ABORTING"}
    /\ envEvents + errorIsFault(s) <= MaxEnvEvents
    /\ envEvents' = envEvents + errorIsFault(s)
    /\ LET sk == [socks EXCEPT ![s] = "CLOSED"]
           st == [stats EXCEPT !.errors = @ + 1]
           h  == [hist EXCEPT !.wsErrors = @ + 1,
                              !.reconnectFails = IF s = ws /\ pc = "reconnecting"
                                                 THEN @ + 1 ELSE @]
       IN  /\ inflight' = [inflight EXCEPT ![s] = <<>>]
           /\ IF ~errorListener
              THEN /\ halted' = "crash"
                   /\ stats' = st
                   /\ socks' = sk
                   /\ hist' = h
                   /\ UNCHANGED <<pc, currentMessageCount, isRunning, isPaused,
                                  trainingData, currentPromptIndex, ws, loopSnap>>
              ELSE /\ UNCHANGED halted
                   /\ hist' = h
                   /\ IF s = ws /\ pc = "connecting"
                      THEN \* startTraining rethrows to its caller
                           /\ pc' = "failed"
                           /\ stats' = st
                           /\ socks' = sk
                           /\ UNCHANGED <<currentMessageCount, isRunning, isPaused,
                                          trainingData, currentPromptIndex, ws, loopSnap>>
                      ELSE IF s = ws /\ pc = "reconnecting"
                      THEN \* catch (reconnectError) { break }
                           loopExit(st, currentMessageCount, sk)
                      ELSE /\ stats' = st
                           /\ socks' = sk
                           /\ UNCHANGED <<pc, currentMessageCount, isRunning, isPaused,
                                          trainingData, currentPromptIndex, ws, loopSnap>>
    /\ UNCHANGED <<maxMessages, errorListener, endpoint, now, saves, extStops,
                   logFile, summaries>>

\* 'close' event of socket s: the peer closed an open socket, or the closing
\* handshake of a socket closed by stopTraining ended; the handler only logs
wsClose(s) ==
    /\ halted = "no"
    /\ socks[s] \in {"OPEN", "CLOSING"}
    /\ envEvents + closeIsFault(s) <= MaxEnvEvents
    /\ envEvents' = envEvents + closeIsFault(s)
    /\ socks' = [socks EXCEPT ![s] = "CLOSED"]
    /\ inflight' = [inflight EXCEPT ![s] = <<>>]
    /\ hist' = IF socks[s] = "OPEN"
               THEN [hist EXCEPT !.unexpectedCloses = @ + 1] ELSE hist
    /\ UNCHANGED <<maxMessages, errorListener, endpoint, now, pc, currentMessageCount,
                   isRunning, isPaused, stats, trainingData, currentPromptIndex, ws,
                   saves, loopSnap, extStops, logFile, summaries, halted>>

\* the 10 s timer of connectToNode fires while its promise is still pending
connectTimeout ==
    /\ halted = "no"
    /\ pc \in {"connecting", "reconnecting"}
    /\ socks[ws] # "OPEN"
    /\ envEvents < MaxEnvEvents
    /\ envEvents' = envEvents + 1
    /\ hist' = [hist EXCEPT !.timeouts = @ + 1,
                             !.reconnectFails = IF pc = "reconnecting" THEN @ + 1 ELSE @]
    /\ IF pc = "connecting"
       THEN /\ pc' = "failed"
            /\ UNCHANGED <<currentMessageCount, isRunning, isPaused, stats,
                           trainingData, currentPromptIndex, ws, socks, inflight,
                           loopSnap>>
       ELSE /\ loopExit(stats, currentMessageCount, socks)
            /\ UNCHANGED inflight
    /\ UNCHANGED <<maxMessages, errorListener, endpoint, now, saves, extStops,
                   logFile, summaries, halted>>

\* pauseTraining()
pauseTraining ==
    /\ halted = "no"
    /\ isPaused' = ~isPaused
    /\ UNCHANGED <<maxMessages, errorListener, endpoint, now, pc, currentMessageCount,
                   isRunning, stats, trainingData, currentPromptIndex, ws, socks,
                   inflight, envEvents, saves, loopSnap, extStops, logFile, summaries,
                   halted, hist>>

\* stopTraining without `this.isPaused = false`
stopTraining_keepsPause(src) ==
    /\ halted = "no"
    /\ envEvents < MaxEnvEvents
    /\ envEvents' = envEvents + 1
    /\ extStops' = extStops + 1
    /\ isRunning' = FALSE
    /\ socks' = closeWs(socks)
    /\ saves' = Append(saves, [src |-> src, snap |-> snapshot(stats, trainingData)])
    /\ hist' = IF pc = "done"
               THEN [hist EXCEPT !.stopsAfterDone = @ + 1] ELSE hist
    /\ UNCHANGED <<maxMessages, errorListener, endpoint, now, pc, currentMessageCount, stats,
                   isPaused, trainingData, currentPromptIndex, ws, inflight,
                   loopSnap, logFile, summaries, halted>>

\* stopTraining() called by the SIGINT handler or by the owner of the bot, up
\* to the file write of saveLogs
stopTraining(src) ==
    /\ halted = "no"
    /\ envEvents < MaxEnvEvents
    /\ envEvents' = envEvents + 1
    /\ extStops' = extStops + 1
    /\ isRunning' = FALSE
    /\ isPaused' = FALSE
    /\ socks' = closeWs(socks)
    /\ saves' = Append(saves, [src |-> src, snap |-> snapshot(stats, trainingData)])
    /\ hist' = IF pc = "done"
               THEN [hist EXCEPT !.stopsAfterDone = @ + 1] ELSE hist
    /\ UNCHANGED <<maxMessages, errorListener, endpoint, now, pc, currentMessageCount, stats,
                   trainingData, currentPromptIndex, ws, inflight, loopSnap,
                   logFile, summaries, halted>>

\* fs.writeFile of an outside stopTraining ends (ok or not); saveLogs returns,
\* printSummary runs, and the SIGINT handler then calls process.exit(0)
saveLogsDone(i, ok) ==
    /\ halted = "no"
    /\ i \in 1..Len(saves)
    /\ saves' = SubSeq(saves, 1, i - 1) \o SubSeq(saves, i + 1, Len(saves))
    /\ logFile' = IF ok THEN saves[i].snap ELSE logFile
    /\ summaries' = summaries + 1
    /\ halted' = IF saves[i].src = "SIGINT" THEN "exit" ELSE "no"
    /\ UNCHANGED <<maxMessages, errorListener, endpoint, now, pc, currentMessageCount,
                   isRunning, isPaused, stats, trainingData, currentPromptIndex, ws,
                   socks, inflight, envEvents, loopSnap, extStops, hist>>

\* fs.writeFile of the loop's own stopTraining ends; trainingLoop and
\* startTraining return
loopSaveDone(ok) ==
    /\ halted = "no"
    /\ pc = "saving"
    /\ pc' = "done"
    /\ logFile' = IF ok THEN loopSnap ELSE logFile
    /\ summaries' = summaries + 1
    /\ UNCHANGED <<maxMessages, errorListener, endpoint, now, currentMessageCount, isRunning,
                   isPaused, stats, trainingData, currentPromptIndex, ws, socks,
                   inflight, envEvents, saves, loopSnap, extStops, halted, hist>>

\* main(): startTraining rejected, so process.exit(1)
mainExit ==
    /\ halted = "no"
    /\ pc = "failed"
    /\ halted' = "exit"
    /\ UNCHANGED <<maxMessages, errorListener, endpoint, now, pc, currentMessageCount,
                   isRunning, isPaused, stats, trainingData, currentPromptIndex, ws,
                   socks, inflight, envEvents, saves, loopSnap, extStops, logFile,
                   summaries, hist>>

\* the system clock moves forward between two turns of the event loop
tick ==
    /\ halted = "no"
    /\ envEvents < MaxEnvEvents
    /\ envEvents' = envEvents + 1
    /\ now' = now + 1
    /\ UNCHANGED <<maxMessages, errorListener, endpoint, pc, currentMessageCount,
                   isRunning, isPaused, stats, trainingData, currentPromptIndex, ws,
                   socks, inflight, saves, loopSnap, extStops, logFile, summaries,
                   halted, hist>>

\* startTraining() called again on a bot whose earlier run has ended
startTrainingAgain ==
    /\ halted = "no"
    /\ pc \in {"done", "failed"}
    /\ envEvents < MaxEnvEvents
    /\ envEvents' = envEvents + 1
    /\ pc' = "connecting"
    /\ ws' = ws + 1
    /\ socks' = [socks EXCEPT ![ws + 1] = "CONNECTING"]
    /\ UNCHANGED <<maxMessages, errorListener, endpoint, now, currentMessageCount, isRunning,
                   isPaused, stats, trainingData, currentPromptIndex, inflight,
                   saves, loopSnap, extStops, logFile, summaries, halted, hist>>

\* ---------------------------------------------------------- specifications
InitBase ==
    /\ maxMessages \in 1..MaxMessages
    /\ errorListener \in BOOLEAN
    /\ pc = "idle"
    /\ currentMessageCount = 0
    /\ isRunning = FALSE
    /\ isPaused = FALSE
    /\ stats = [messageCount |-> 0, sessionCount |-> 0, startTime |-> FALSE,
                responses |-> 0, errors |-> 0]
    /\ trainingData = <<>>
    /\ currentPromptIndex = 0
    /\ ws = 0
    /\ socks = [i \in SockIds |-> "NONE"]
    /\ inflight = [i \in SockIds |-> <<>>]
    /\ envEvents = 0
    /\ saves = <<>>
    /\ loopSnap = NoSnap
    /\ extStops = 0
    /\ logFile = NoSnap
    /\ summaries = 0
    /\ halted = "no"
    /\ now = 0
    /\ hist = [failedAt |-> {}, polled |-> FALSE, wsErrors |-> 0, timeouts |-> 0,
               unexpectedCloses |-> 0, reconnectFails |-> 0, stopsAfterDone |-> 0]

Init == InitBase /\ endpoint = "any"

InitEcho == InitBase /\ endpoint = "echo"

\* a session one message longer than the prompt list, so that the cursor
\* wraps, against an endpoint that never sends anything
InitCycle ==
    /\ maxMessages = Len(getTrainingPrompts) + 1
    /\ endpoint = "silent"
    /\ errorListener \in BOOLEAN
    /\ pc = "idle"
    /\ currentMessageCount = 0
    /\ isRunning = FALSE
    /\ isPaused = FALSE
    /\ stats = [messageCount |-> 0, sessionCount |-> 0, startTime |-> FALSE,
                responses |-> 0, errors |-> 0]
    /\ trainingData = <<>>
    /\ currentPromptIndex = 0
    /\ ws = 0
    /\ socks = [i \in SockIds |-> "NONE"]
    /\ inflight = [i \in SockIds |-> <<>>]
    /\ envEvents = 0
    /\ saves = <<>>
    /\ loopSnap = NoSnap
    /\ extStops = 0
    /\ logFile = NoSnap
    /\ summaries = 0
    /\ halted = "no"
    /\ now = 0
    /\ hist = [failedAt |-> {}, polled |-> FALSE, wsErrors |-> 0, timeouts |-> 0,
               unexpectedCloses |-> 0, reconnectFails |-> 0, stopsAfterDone |-> 0]

\* what the bot and its socket do whatever the endpoint sends
Common ==
    \/ startTraining
    \/ \E s \in SockIds : wsOpen(s)
    \/ \E s \in SockIds : wsError(s)
    \/ \E s \in SockIds : wsClose(s)
    \/ connectTimeout
    \/ sleepDone
    \/ pauseTraining
    \/ \E src \in {"SIGINT", "caller"} : stopTraining(src)
    \/ \E i \in 1..MaxEnvEvents, ok \in BOOLEAN : saveLogsDone(i, ok)
    \/ \E ok \in BOOLEAN : loopSaveDone(ok)
    \/ mainExit

Next ==
    \/ Common
    \/ \E s \in SockIds, raw \in Payloads : wsMessage(s, raw)

NextEcho ==
    \/ Common
    \/ \E s \in SockIds : wsMessageEcho(s)

NextReuse ==
    \/ Next
    \/ startTrainingAgain

\* the endpoint answers in plain text while the clock runs
NextClock ==
    \/ Common
    \/ \E s \in SockIds : wsMessage(s, "hello")
    \/ tick

\* one run of one bot against an arbitrary endpoint
Spec == Init /\ [][Next]_vars

\* one run of one bot against an endpoint that echoes every prompt
SpecEcho == InitEcho /\ [][NextEcho]_vars

\* one run of one bot through the whole prompt list and past its end
SpecCycle == InitCycle /\ [][Common]_vars

\* one run of one bot with the system clock moving
SpecClock == Init /\ [][NextClock]_vars

\* the connect attempt in progress settles: its socket opens or fails, or the
\* 10 s timer of connectToNode fires
connectSettles ==
    \/ connectTimeout
    \/ ws # 0 /\ wsOpen(ws)
    \/ ws # 0 /\ wsError(ws)

\* one run of one bot where timers fire, file writes end and connect attempts
\* settle
SpecFair ==
    /\ Spec
    /\ WF_vars(sleepDone)
    /\ WF_vars(connectSettles)
    /\ WF_vars(\E ok \in BOOLEAN : loopSaveDone(ok))
    /\ WF_vars(\E i \in 1..MaxEnvEvents, ok \in BOOLEAN : saveLogsDone(i, ok))

\* a bot whose owner calls startTraining again after a run has ended
SpecReuse == Init /\ [][NextReuse]_vars

\* ------------------------------------------------- vocabulary of the claims
OfType(data, t) == SelectSeq(data, LAMBDA e : e.type = t)

NumPrompts(data) == Len(OfType(data, "prompt"))

NumResponses(data) == Len(OfType(data, "response"))

Contents(data) == [i \in 1..Len(data) |-> data[i].content]

\* the prompts of cursor positions from..(to - 1), those in skip left out
RECURSIVE PromptsOf(_, _, _)
PromptsOf(from, to, skip) ==
    IF from >= to THEN <<>>
    ELSE (IF from \in skip THEN <<>> ELSE <<promptAt(from)>>) \o PromptsOf(from + 1, to, skip)

\* the loop has left its while loop and run stopTraining
LoopStopped == pc \in {"saving", "done"}

\* an outside stopTraining call has been made
Cancelled == extStops > 0

\* the prompts in the ledger are those of the cursor positions used so far,
\* in cursor order, without the positions whose send failed
PromptsFollowCursor ==
    Contents(OfType(trainingData, "prompt"))
        = PromptsOf(0, currentPromptIndex, hist.failedAt)

\* C1: a session that meets no transport failure and no cancellation ends
\* with stats.messageCount = maxMessages and exactly maxMessages 'prompt'
\* entries in trainingData, whatever pauses and inbound responses it saw.
C1_CompletedSessionCounts ==
    (LoopStopped /\ stats.errors = 0 /\ ~Cancelled)
        => /\ stats.messageCount = maxMessages
           /\ NumPrompts(trainingData) = maxMessages
           /\ loopSnap.stats.messageCount = maxMessages
           /\ NumPrompts(loopSnap.trainingData) = maxMessages

C1_Witness ==
    /\ pc = "done" /\ stats.errors = 0 /\ ~Cancelled
    /\ maxMessages = MaxMessages /\ stats.messageCount = MaxMessages
    /\ hist.polled /\ stats.responses >= 1

\* C2: after exactly one failed send (connection not open) and a reconnect
\* that succeeds, with no other fault and no cancellation, the loop goes on
\* to maxMessages successful sends; at shutdown stats.errors = 1,
\* stats.messageCount = maxMessages and the ledger has no 'prompt' entry for
\* the failed attempt.
C2_OneFailureThenRecovers ==
    (/\ LoopStopped /\ ~Cancelled
     /\ Cardinality(hist.failedAt) = 1
     /\ hist.wsErrors = 0 /\ hist.timeouts = 0)
        => /\ stats.errors = 1
           /\ loopSnap.stats.errors = 1
           /\ stats.messageCount = maxMessages
           /\ loopSnap.stats.messageCount = maxMessages
           /\ currentPromptIndex = maxMessages + 1
           /\ NumPrompts(trainingData) = maxMessages
           /\ PromptsFollowCursor

C2_Witness ==
    /\ pc = "done" /\ ~Cancelled
    /\ hist.failedAt = {1} /\ hist.wsErrors = 0 /\ hist.timeouts = 0
    /\ stats.messageCount = 2 /\ stats.errors = 1

C4_PauseCorrect ==
    /\ [][isPaused => /\ stats'.messageCount = stats.messageCount
                      /\ currentPromptIndex' = currentPromptIndex]_vars
    /\ [](PromptsFollowCursor)

C4_Witness ==
    /\ pc = "done" /\ hist.polled /\ ~Cancelled
    /\ stats.messageCount = MaxMessages /\ hist.failedAt = {}

\* C5: after a cancellation of a running session no further prompt is sent
\* and the session goes through shutdown (transport closed, log persisted,
\* summary printed).  Stated for the claim's reconnect case: a session that
\* is cancelled during a reconnect attempt sends nothing more and does not
\* end before a shutdown has completed.
C5_CancelledSessionShutsDown ==
    (Cancelled /\ pc = "reconnecting")
        => /\ NumPrompts(trainingData) = stats.messageCount
           /\ (halted # "no" => summaries >= 1)

\* C6 (as stated): stopTraining on a session whose shutdown has completed
\* changes none of the counters, the run and pause flags and trainingData.
C6_StopAfterStopChangesNothing ==
    [][(pc = "done" /\ extStops' = extStops + 1)
          => UNCHANGED <<stats, isRunning, isPaused, trainingData>>]_vars

\* C6 (amended): stopTraining on a session whose shutdown has completed
\* changes none of the counters, the run flag and trainingData, and leaves
\* the pause flag false (it clears a pause toggled on after the shutdown).
C6_StopAfterStopKeepsCounters ==
    [][(pc = "done" /\ extStops' = extStops + 1)
          => /\ UNCHANGED <<stats, isRunning, trainingData>>
             /\ isPaused' = FALSE]_vars

C6_Witness ==
    /\ hist.stopsAfterDone >= 1
    /\ stats.messageCount >= 1 /\ stats.responses >= 1

\* the responses in data echo, in order, the first prompts in data, and each
\* comes after the prompt it echoes
EchoPaired(data) ==
    LET P == OfType(data, "prompt")
        R == OfType(data, "response")
    IN  /\ Len(R) <= Len(P)
        /\ \A k \in 1..Len(R) : R[k].content = P[k].content
        /\ \A i \in 1..Len(data) :
              data[i].type = "response"
                  => NumPrompts(SubSeq(data, 1, i)) >= NumResponses(SubSeq(data, 1, i))

\* C7: against an endpoint that echoes every prompt once, with no failure,
\* the log a finished session has persisted holds maxMessages prompts and
\* maxMessages responses, each prompt before its echo, with
\* messageCount = responses = maxMessages and errors = 0.
C7_EchoLedgerComplete ==
    (/\ pc = "done" /\ ~Cancelled /\ logFile.written
     /\ stats.errors = 0 /\ hist.unexpectedCloses = 0)
        => /\ Len(logFile.trainingData) = 2 * maxMessages
           /\ NumPrompts(logFile.trainingData) = maxMessages
           /\ NumResponses(logFile.trainingData) = maxMessages
           /\ EchoPaired(logFile.trainingData)
           /\ logFile.stats.messageCount = maxMessages
           /\ logFile.stats.responses = maxMessages
           /\ logFile.stats.errors = 0

\* C8: the log persisted at shutdown holds the final in-memory ledger and
\* statistics: nothing is appended or counted after saveLogs took its snapshot.
\* Stated for runs without any transport error.
C8_PersistedEqualsFinal ==
    (pc = "done" /\ ~Cancelled /\ logFile.written /\ hist.wsErrors = 0)
        => /\ logFile.trainingData = trainingData
           /\ logFile.stats = stats

\* C9: once a session's shutdown has completed, nothing makes isRunning true
\* again, opens a new connection or sends another prompt on that bot.
C9_StoppedIsTerminal ==
    [][pc = "done" => /\ pc' = "done"
                      /\ ~isRunning'
                      /\ ws' = ws
                      /\ stats'.messageCount = stats.messageCount]_vars

\* C10: for a bot with its default listeners only, no transport fault of an
\* active session (initial connect succeeded, shutdown not completed) ends
\* as an uncaught exception.
C10_NoUncaughtFault ==
    ~(/\ halted = "crash"
      /\ ~errorListener
      /\ stats.sessionCount >= 1
      /\ pc \in {"sleep", "poll", "reconnecting", "saving"})

\* the connect attempt of startTraining has failed: startTraining rejected, or
\* the socket's 'error' handler ran while startTraining was awaiting it
InitialConnectFailed ==
    \/ pc = "failed"
    \/ pc = "connecting" /\ ws # 0 /\ socks[ws] = "CLOSED"

\* C11: if the initial connect of startTraining fails, by a transport error
\* or by the connect timeout, startTraining fails to its caller, isRunning
\* is never true, stats.sessionCount and stats.startTime keep their initial
\* values, no prompt is sent and nothing is appended to trainingData.
C11_InitialConnectFailure ==
    InitialConnectFailed
        => /\ pc = "failed"
           /\ halted # "crash"
           /\ ~isRunning
           /\ stats.sessionCount = 0
           /\ stats.startTime = FALSE
           /\ stats.messageCount = 0
           /\ currentPromptIndex = 0
           /\ trainingData = <<>>

\* C12: every inbound message event, whatever its payload, adds exactly one
\* to stats.responses and exactly one 'response' entry to trainingData; hence
\* stats.responses always equals the number of 'response' entries.
C12_OneResponsePerMessage ==
    /\ [][\A s \in SockIds, raw \in Payloads :
             wsMessage(s, raw)
                 => /\ stats'.responses = stats.responses + 1
                    /\ NumResponses(trainingData') = NumResponses(trainingData) + 1]_vars
    /\ [](stats.responses = NumResponses(trainingData))

\* the loop is suspended in one of its waits
LoopYielded == pc \in {"sleep", "poll", "reconnecting"}

\* this step made a send attempt
SendAttempted == currentPromptIndex' # currentPromptIndex

\* this step made a send attempt that failed
SendFailed == hist'.failedAt # hist.failedAt

\* C13: stats.messageCount grows by one with every successful send and not
\* at all with a failed one, a send goes to the transport only when the
\* connection is open, and wherever the loop yields stats.messageCount equals
\* the number of 'prompt' entries in trainingData.
C13_CountsSuccessfulSends ==
    /\ [][/\ (SendAttempted /\ SendFailed)
                => /\ stats'.messageCount = stats.messageCount
                   /\ NumPrompts(trainingData') = NumPrompts(trainingData)
          /\ (SendAttempted /\ ~SendFailed)
                => /\ stats'.messageCount = stats.messageCount + 1
                   /\ NumPrompts(trainingData') = NumPrompts(trainingData) + 1
                   /\ socks'[ws'] = "OPEN"
          /\ ~SendAttempted => stats'.messageCount = stats.messageCount]_vars
    /\ [](LoopYielded => stats.messageCount = NumPrompts(trainingData))

C13_Witness ==
    /\ pc = "sleep" /\ hist.polled
    /\ hist.failedAt = {1} /\ stats.errors = 1
    /\ stats.messageCount = 2 /\ NumPrompts(trainingData) = 2

\* this step is the 'open' of the socket a connectToNode call is awaiting
ConnectSucceeded ==
    /\ pc \in {"connecting", "reconnecting"}
    /\ ws # 0 /\ socks[ws] = "CONNECTING" /\ socks'[ws] = "OPEN"

\* the entries this step appended to trainingData
Appended == SubSeq(trainingData', Len(trainingData) + 1, Len(trainingData'))

\* C14: stats.sessionCount grows by one on every successful connect, the
\* initial one and every reconnect inside the loop, and every entry recorded
\* carries the session number current when it is recorded.
C14_SessionPerConnect ==
    [][/\ ConnectSucceeded => stats'.sessionCount = stats.sessionCount + 1
       /\ \A i \in 1..Len(Appended) : Appended[i].session = stats'.sessionCount]_vars

\* this step is a pauseTraining call
Toggled == isPaused' # isPaused /\ pc' = pc /\ extStops' = extStops

\* C15 (as stated): a pause toggle made while the session is reconnecting
\* has no effect; in particular it does not leave the loop paused once the
\* reconnect has succeeded.
C15_ToggleDuringReconnectIgnored ==
    [][(pc = "reconnecting" /\ ConnectSucceeded) => pc' # "poll"]_vars

\* C15 (amended): a pause toggle flips the pause flag in every state and
\* changes nothing else, so it does not disturb a reconnect attempt or a
\* shutdown in progress; the flag is kept, and when a reconnect succeeds with
\* the flag on the loop sends nothing and goes to its pause poll.
C15_ToggleFlipsFlagOnly ==
    /\ [][Toggled => UNCHANGED <<currentMessageCount, isRunning, stats, trainingData,
                                 currentPromptIndex, ws, socks, inflight, saves,
                                 loopSnap, logFile, summaries, halted>>]_vars
    /\ [][(pc = "reconnecting" /\ ConnectSucceeded /\ isRunning)
             => IF isPaused
                THEN /\ pc' = "poll"
                     /\ ~SendAttempted
                     /\ stats'.messageCount = stats.messageCount
                ELSE SendAttempted]_vars
    /\ [][pc = "saving" => pc' \in {"saving", "done"}]_vars

C15_Witness ==
    /\ pc = "poll" /\ isPaused
    /\ ws = 2 /\ socks[2] = "OPEN"
    /\ hist.failedAt = {1} /\ currentPromptIndex = 2

\* C16: every fault of a session is counted in stats.errors: when the loop
\* has stopped, stats.errors is at least the number of failed sends (an
\* unexpected close shows as the failed send that follows it) plus the number
\* of failed reconnect attempts, failed by a transport error or by the
\* connect timeout.
C16_EveryFaultCounted ==
    LoopStopped
        => /\ stats.errors >= Cardinality(hist.failedAt) + hist.reconnectFails
           /\ loopSnap.stats.errors >= Cardinality(hist.failedAt) + hist.reconnectFails

\* the prompt of cursor position k: position k modulo the length of the list
CursorPrompt(k) == getTrainingPrompts[(k % Len(getTrainingPrompts)) + 1]

\* this step made a send attempt that succeeded
SendSucceeded == stats'.messageCount # stats.messageCount

\* this step made a send attempt that failed: the loop went to reconnect
SendThrew == pc # "reconnecting" /\ pc' = "reconnecting"

\* C17: every send attempt, successful or failed, takes the prompt at cursor
\* position currentPromptIndex modulo the length of the prompt list and
\* advances the cursor by exactly one, and no other step changes the cursor;
\* so the k-th attempt uses prompt k mod L and a prompt whose send failed is
\* not sent again.
C17_CursorAdvancesPerAttempt ==
    /\ [][/\ SendSucceeded
                => /\ currentPromptIndex' = currentPromptIndex + 1
                   /\ Len(Appended) = 1
                   /\ Appended[1].type = "prompt"
                   /\ Appended[1].content = CursorPrompt(currentPromptIndex)
          /\ SendThrew
                => /\ currentPromptIndex' = currentPromptIndex + 1
                   /\ Appended = <<>>
          /\ ~(SendSucceeded \/ SendThrew)
                => currentPromptIndex' = currentPromptIndex]_vars
    /\ [](currentPromptIndex = stats.messageCount + Cardinality(hist.failedAt))

C17_Witness ==
    /\ pc = "done" /\ hist.failedAt = {1} /\ currentPromptIndex = 5
    /\ Contents(trainingData)
         = <<getTrainingPrompts[1], getTrainingPrompts[3],
             getTrainingPrompts[1], getTrainingPrompts[2]>>

\* C18: trainingData is append-only and in append order across both kinds:
\* every step keeps the entries it found, in place and unchanged, and adds
\* new ones at the end only; when an inbound message is handled every send
\* begun so far has its 'prompt' entry in the ledger already, so the
\* 'response' entry comes after it; and with a clock that never goes back
\* the timestamps never decrease along the ledger.
C18_LedgerAppendOnly ==
    /\ [][/\ Len(trainingData') >= Len(trainingData)
          /\ SubSeq(trainingData', 1, Len(trainingData)) = trainingData
          /\ stats'.responses # stats.responses
                => /\ NumPrompts(trainingData) = stats.messageCount
                   /\ Len(Appended) = 1
                   /\ Appended[1].type = "response"]_vars
    /\ [](\A i, j \in 1..Len(trainingData) :
             i < j => trainingData[i].timestamp <= trainingData[j].timestamp)

C18_Witness ==
    /\ Len(trainingData) = 3
    /\ [i \in 1..3 |-> trainingData[i].type] = <<"prompt", "response", "prompt">>
    /\ [i \in 1..3 |-> trainingData[i].timestamp] = <<0, 1, 1>>

\* the session has started running
Started == stats.sessionCount >= 1

\* shutdown has run to its end: run flag off, transport closed or closing,
\* saveLogs returned and the summary printed
Stopped ==
    /\ ~isRunning
    /\ ws # 0 /\ socks[ws] \notin {"CONNECTING", "OPEN"}
    /\ summaries >= 1

\* C19: every session that has started running eventually reaches the
\* stopped state, when timers fire, connect attempts settle, file writes end,
\* the pause flag is not left on forever and only finitely many transport
\* failures occur.
C19_StartedSessionStops ==
    (<>[](~isPaused)) => (Started ~> Stopped)

\* C20: the shutdown sequence (close, saveLogs, printSummary) runs once per
\* session: after stopTraining was called from outside while the loop was
\* waiting, the loop's own exit does not start the sequence again, so it
\* starts no second saveLogs write next to the one of the outside call.
C20_ShutdownRunsOnce ==
    [][(Cancelled /\ LoopYielded)
          => /\ pc' # "saving"
             /\ loopSnap' = loopSnap]_vars
====
